---- MODULE Spec2Model ----
(***************************************************************************)
(* Layer kinematics of the pore-predictor repository.                     *)
(*                                                                         *)
(* LayerKinematics (src/Layer_Handler/LayerKinematics.py) reads one        *)
(* layer's monitoring samples from a csv file, adds the derived columns    *)
(* length, event and polygons, and sums up a seven field summary.          *)
(*                                                                         *)
(* Numbers.  The columns x, y, z and laser_status hold integers here.      *)
(* A pandas float is a record [coef, rad] standing for coef * sqrt(rad)    *)
(* with rad square free; rad = 0 marks NaN.  Square roots of distinct      *)
(* square free integers are linearly independent over the rationals, so    *)
(* a sum of lengths is the function rad |-> sum of the coefs, and two      *)
(* sums are the same real number exactly when the functions are equal.     *)
(* A division keeps its divisor: [num, den].  The arithmetic is exact;     *)
(* the rounding of IEEE doubles is not modelled.                           *)
(***************************************************************************)
EXTENDS Integers, Sequences, FiniteSets, TLC

VARIABLES files, objs, returned

vars == <<files, objs, returned>>

(* ------------------------------ bounds -------------------------------- *)

\* the longest monitoring file, in samples
MaxLen == 3

(* ------------------------- program constants -------------------------- *)

SamplePeriod == 10

MicrosPerSecond == 1000000

DistanceDivisor == 1000

(* ------------------------------ floats -------------------------------- *)

NaN == [coef |-> 0, rad |-> 0]

Float(n) == [coef |-> n, rad |-> 1]

IsNaN(v) == v.rad = 0

\* v ** 2
Pow2(v) == IF IsNaN(v) THEN NaN ELSE Float(v.coef * v.coef * v.rad)

\* a + b of two rational floats; NaN propagates
FAdd(a, b) == IF IsNaN(a) \/ IsNaN(b) THEN NaN ELSE Float(a.coef + b.coef)

\* the largest c with c*c dividing k (k > 0)
SquarePart(k) == CHOOSE c \in 1..k : /\ k % (c * c) = 0
                                     /\ \A d \in (c + 1)..k : k % (d * d) # 0

\* np.sqrt of a rational float >= 0
NpSqrt(v) ==
    IF IsNaN(v) THEN NaN
    ELSE IF v.coef = 0 THEN Float(0)
    ELSE [coef |-> SquarePart(v.coef), rad |-> v.coef \div (SquarePart(v.coef) * SquarePart(v.coef))]

\* Series.diff(): the first entry is NaN, the others the difference to the row before
SeriesDiff(col) ==
    [i \in 1..Len(col) |-> IF i = 1 THEN NaN ELSE Float(col[i] - col[i - 1])]

\* Series.fillna(value)
FillNa(col, value) == [i \in 1..Len(col) |-> IF IsNaN(col[i]) THEN Float(value) ELSE col[i]]

\* Series.astype(int) of a column of whole floats
AsTypeInt(col) == [i \in 1..Len(col) |-> col[i].coef]

RECURSIVE CoefSum(_, _, _)
CoefSum(col, r, n) ==
    IF n = 0 THEN 0
    ELSE CoefSum(col, r, n - 1) + (IF col[n].rad = r THEN col[n].coef ELSE 0)

\* Series.sum(): NaN entries are skipped (skipna), the empty sum is 0
SeriesSum(col) ==
    LET rads == {col[i].rad : i \in {j \in 1..Len(col) : ~IsNaN(col[j]) /\ col[j].coef # 0}}
    IN  [r \in rads |-> CoefSum(col, r, Len(col))]

SurdAdd(f, g) ==
    [r \in (DOMAIN f) \cup (DOMAIN g) |->
        (IF r \in DOMAIN f THEN f[r] ELSE 0) + (IF r \in DOMAIN g THEN g[r] ELSE 0)]

\* a / b
Div(a, b) == [num |-> a, den |-> b]

\* the sum of two distances over the same divisor
DistAdd(p, q) == [num |-> SurdAdd(p.num, q.num), den |-> p.den]

\* the sum of two times over the same divisor
TimeAdd(p, q) == [num |-> p.num + q.num, den |-> p.den]

(* ---------------------------- csv tables ------------------------------ *)

InputColumns == <<"x", "y", "z", "laser_status">>

\* A csv field is text: <<>> is the empty field, <<"i", n>> the integer
\* literal of n, <<"f", v>> the float literal of v.
FormatCell(v, dtype) ==
    IF dtype = "int64" THEN <<"i", v>>
    ELSE IF IsNaN(v) THEN <<>>
    ELSE <<"f", v>>

Range(s) == {s[i] : i \in 1..Len(s)}

ColumnPos(header, name) == CHOOSE j \in 1..Len(header) : header[j] = name

CsvColumn(csv, name) == [i \in 1..Len(csv.lines) |-> csv.lines[i][ColumnPos(csv.header, name)]]

\* the parser's type inference: a column of integer literals only is int64, any other float64
InferDtype(cells) ==
    IF \A i \in 1..Len(cells) : Len(cells[i]) = 2 /\ cells[i][1] = "i" THEN "int64" ELSE "float64"

ParseCell(c, dtype) ==
    IF dtype = "int64" THEN c[2]
    ELSE IF Len(c) = 0 THEN NaN
    ELSE IF c[1] = "i" THEN Float(c[2])
    ELSE c[2]

\* pd.read_csv: the header names the columns, one row per line
ReadCsv(csv) ==
    [columns |-> csv.header,
     dtypes  |-> [c \in Range(csv.header) |-> InferDtype(CsvColumn(csv, c))],
     data    |-> [c \in Range(csv.header) |->
                    [i \in 1..Len(csv.lines) |->
                        ParseCell(CsvColumn(csv, c)[i], InferDtype(CsvColumn(csv, c)))]]]

DfLen(df) == Len(df.data[df.columns[1]])

\* df[name] = col : a new column goes last, an old one keeps its place
SetColumn(df, name, dtype, col) ==
    [columns |-> IF name \in Range(df.columns) THEN df.columns ELSE Append(df.columns, name),
     dtypes  |-> [c \in Range(df.columns) \cup {name} |-> IF c = name THEN dtype ELSE df.dtypes[c]],
     data    |-> [c \in Range(df.columns) \cup {name} |-> IF c = name THEN col ELSE df.data[c]]]

\* slip: the rows with an undefined float are not written
DfToCsv_dropna(df) ==
    LET kept == SelectSeq([i \in 1..DfLen(df) |-> i],
                          LAMBDA i : \A c \in Range(df.columns) :
                                         df.dtypes[c] = "float64" => ~IsNaN(df.data[c][i]))
    IN  [header |-> df.columns,
         lines  |-> [k \in 1..Len(kept) |->
                        [j \in 1..Len(df.columns) |->
                            FormatCell(df.data[df.columns[j]][kept[k]], df.dtypes[df.columns[j]])]]]

\* DataFrame.to_csv(index=False)
DfToCsv(df) ==
    [header |-> df.columns,
     lines  |-> [i \in 1..DfLen(df) |->
                    [j \in 1..Len(df.columns) |->
                        FormatCell(df.data[df.columns[j]][i], df.dtypes[df.columns[j]])]]]

\* df[df[name] == value]: the row numbers kept, in order
RowsWhere(df, name, value) ==
    SelectSeq([i \in 1..DfLen(df) |-> i], LAMBDA i : df.data[name][i] = value)

Take(col, rows) == [k \in 1..Len(rows) |-> col[rows[k]]]

(* -------------------------- LayerKinematics --------------------------- *)

\* slip: the z step enters the length
LengthColumn_with_z(df) ==
    [i \in 1..DfLen(df) |->
        NpSqrt(FAdd(FAdd(Pow2(SeriesDiff(df.data["x"])[i]), Pow2(SeriesDiff(df.data["y"])[i])),
                    Pow2(SeriesDiff(df.data["z"])[i])))]

\* self.df['length'] = np.sqrt(self.df["x"].diff() ** 2 + self.df["y"].diff() ** 2)
LengthColumn(df) ==
    [i \in 1..DfLen(df) |->
        NpSqrt(FAdd(Pow2(SeriesDiff(df.data["x"])[i]), Pow2(SeriesDiff(df.data["y"])[i])))]

\* slip: the marker loses its sign
_events_unsigned(df) ==
    SetColumn(df, "event", "int64",
              [i \in 1..DfLen(df) |->
                  IF AsTypeInt(FillNa(SeriesDiff(df.data["laser_status"]), 0))[i] < 0
                  THEN 0 - AsTypeInt(FillNa(SeriesDiff(df.data["laser_status"]), 0))[i]
                  ELSE AsTypeInt(FillNa(SeriesDiff(df.data["laser_status"]), 0))[i]])

_events(df) ==
    SetColumn(df, "event", "int64", AsTypeInt(FillNa(SeriesDiff(df.data["laser_status"]), 0)))

\* slip: an undefined length is taken for 0.0
_polygon_delays_nan_as_zero(df) ==
    SetColumn(df, "polygons", "int64",
              [i \in 1..DfLen(df) |->
                  IF IsNaN(df.data["length"][i]) \/ df.data["length"][i] = Float(0) THEN 1 ELSE 0])

\* np.where(self.df['length'] == 0.0, 1, 0); NaN == 0.0 is False
_polygon_delays(df) ==
    SetColumn(df, "polygons", "int64",
              [i \in 1..DfLen(df) |-> IF df.data["length"][i] = Float(0) THEN 1 ELSE 0])

\* slip: the rows are not filtered by laser_status
_calculate_time_distance_on_unfiltered(df) ==
    [distance |-> Div(SeriesSum(df.data["length"]), DistanceDivisor),
     time     |-> Div(DfLen(df) * SamplePeriod, MicrosPerSecond)]

\* slip: the summed length is not divided
_calculate_time_distance_on_undivided(df) ==
    LET df_on == RowsWhere(df, "laser_status", 1)
    IN  [distance |-> Div(SeriesSum(Take(df.data["length"], df_on)), 1),
         time     |-> Div(Len(df_on) * SamplePeriod, MicrosPerSecond)]

_calculate_time_distance_on(df) ==
    LET df_on == RowsWhere(df, "laser_status", 1)
    IN  [distance |-> Div(SeriesSum(Take(df.data["length"], df_on)), DistanceDivisor),
         time     |-> Div(Len(df_on) * SamplePeriod, MicrosPerSecond)]

_calculate_time_distance_off(df) ==
    LET df_off == RowsWhere(df, "laser_status", 0)
    IN  [distance |-> Div(SeriesSum(Take(df.data["length"], df_off)), DistanceDivisor),
         time     |-> Div(Len(df_off) * SamplePeriod, MicrosPerSecond)]

\* slip: every nonzero marker is counted
_retrieve_no_events_nonzero(df) ==
    Len(SelectSeq([i \in 1..DfLen(df) |-> i], LAMBDA i : df.data["event"][i] # 0)) + 1

_retrieve_no_events(df) == Len(RowsWhere(df, "event", 1)) + 1

\* LayerKinematics(filepath): the object the constructor leaves behind
LayerKinematics(filepath, csv) ==
    LET df  == _polygon_delays(_events(
                   SetColumn(ReadCsv(csv), "length", "float64", LengthColumn(ReadCsv(csv)))))
        on  == _calculate_time_distance_on(df)
        off == _calculate_time_distance_off(df)
        no_events == _retrieve_no_events(df)
    IN  [filepath     |-> filepath,
         df           |-> df,
         time_on      |-> on.time,
         time_off     |-> off.time,
         no_events    |-> no_events,
         distance_on  |-> on.distance,
         distance_off |-> off.distance,
         summary      |-> [time_on        |-> on.time,
                           time_off       |-> off.time,
                           distance_on    |-> on.distance,
                           distance_off   |-> off.distance,
                           total_distance |-> DistAdd(on.distance, off.distance),
                           total_time     |-> TimeAdd(on.time, off.time),
                           number_events  |-> no_events]]

(* ------------------------------ inputs -------------------------------- *)

\* 0 and 1 are the laser states; 2 stands for a status outside the contract
StatusValues == {0, 1, 2}

\* (x, y, z) of a sample: steps along x and along y, a diagonal, a dwell
\* and a step along z alone, forth and back
Positions == {<<0, 0, 0>>, <<1, 0, 0>>, <<1, 1, 0>>, <<1, 1, 1>>}

Samples == {<<p[1], p[2], p[3], s>> : p \in Positions, s \in StatusValues}

\* a monitoring file of the common format: the header and one line per sample
MonitoringFile(rows) ==
    [header |-> InputColumns,
     lines  |-> [i \in 1..Len(rows) |-> [j \in 1..Len(InputColumns) |-> <<"i", rows[i][j]>>]]]

Inputs == UNION {[1..n -> Samples] : n \in 0..MaxLen}

\* the worked example: four samples, statuses 0 1 1 0 on the path (0,0) (1,0) (1,1) (1,1)
ExampleRows == <<<<0, 0, 0, 0>>, <<1, 0, 0, 1>>, <<1, 1, 0, 1>>, <<1, 1, 0, 0>>>>

\* every file of the example's size over the example's positions and statuses
ExampleInputs == [1..Len(ExampleRows) -> {<<r[1], r[2], r[3], s>> : r \in Range(ExampleRows), s \in {0, 1}}]

InputPath == "layer.csv"

OutputPath == "augmented.csv"

(* ----------------------------- the program ---------------------------- *)

Init ==
    /\ \E rows \in Inputs : files = (InputPath :> MonitoringFile(rows))
    /\ objs = <<>>
    /\ returned = <<>>

\* obj = LayerKinematics(path), once per file
Construct(path) ==
    /\ path \in DOMAIN files
    /\ \A o \in 1..Len(objs) : objs[o].filepath # path
    /\ objs' = Append(objs, LayerKinematics(path, files[path]))
    /\ UNCHANGED <<files, returned>>

\* obj.get_values()
GetValues(o) ==
    /\ o \in 1..Len(objs)
    /\ returned' = <<[obj |-> o, value |-> objs[o].summary]>>
    /\ UNCHANGED <<files, objs>>

\* obj.to_csv(OutputPath)
ToCsv(o) ==
    /\ o \in 1..Len(objs)
    /\ OutputPath \notin DOMAIN files
    /\ files' = files @@ (OutputPath :> DfToCsv(objs[o].df))
    /\ UNCHANGED <<objs, returned>>

Next ==
    \/ \E path \in {InputPath, OutputPath} : Construct(path)
    \/ \E o \in 1..2 : GetValues(o)
    \/ \E o \in 1..2 : ToCsv(o)

Spec == Init /\ [][Next]_vars

InitExample ==
    /\ \E rows \in ExampleInputs : files = (InputPath :> MonitoringFile(rows))
    /\ objs = <<>>
    /\ returned = <<>>

SpecExample == InitExample /\ [][Next]_vars

(* ------------------------ reading the claims -------------------------- *)

Built == 1..Len(objs)

\* the file an object was constructed on, and its columns as written in it
Source(o) == files[objs[o].filepath]

Written(o, name) == [i \in 1..Len(Source(o).lines) |-> CsvColumn(Source(o), name)[i][2]]

NSamples(o) == Len(Source(o).lines)

StatusOf(o) == Written(o, "laser_status")

BinaryStatus(o) == \A i \in 1..NSamples(o) : StatusOf(o)[i] \in {0, 1}

\* the real number n as a sum of square roots
Whole(n) == IF n = 0 THEN <<>> ELSE (1 :> n)

\* a distance [num, den] is the whole number n
DistanceIs(q, n) == q.num = Whole(n * q.den)

\* a time [num, den] in seconds is n microseconds
MicrosAre(q, n) == q.num * MicrosPerSecond = n * q.den

FromExample(o) == Source(o).lines = MonitoringFile(ExampleRows).lines

(* ------------------------------- C1 ----------------------------------- *)

C2_TimePartition ==
    \A o \in Built :
        /\ objs[o].summary.total_time = TimeAdd(objs[o].summary.time_on, objs[o].summary.time_off)
        /\ MicrosAre(objs[o].summary.total_time, NSamples(o) * SamplePeriod)

(* ------------------------------- C3 ----------------------------------- *)

\* C3: whenever a summary exists, 'distance on' + 'distance off' = 'total
\* distance', and 'total distance' is the sum of length[i] over the samples
\* i > 0, in the summary's unit: every length goes to exactly one of the two.
C3_DistancePartition ==
    \A o \in Built :
        /\ objs[o].summary.total_distance =
               DistAdd(objs[o].summary.distance_on, objs[o].summary.distance_off)
        /\ objs[o].summary.total_distance =
               Div(SeriesSum(Take(objs[o].df.data["length"], [k \in 1..(NSamples(o) - 1) |-> k + 1])),
                   DistanceDivisor)

(* ------------------------------- C4 ----------------------------------- *)

C5_NonBinaryStatusIsFatal ==
    /\ \A o \in Built : BinaryStatus(o)
    /\ \A r \in 1..Len(returned) : BinaryStatus(returned[r].obj)

(* ------------------------------- C6 ----------------------------------- *)

\* C6: length[0] is undefined and adds nothing to a distance sum; for i > 0
\* length[i] is the Euclidean distance of (x, y) between the samples i-1 and
\* i: length[i] >= 0 and length[i]^2 = dx^2 + dy^2, whatever z does.
C6_LengthIsEuclidean ==
    \A o \in Built :
        LET length == objs[o].df.data["length"]
            x      == Written(o, "x")
            y      == Written(o, "y")
            later(status) == SelectSeq([k \in 1..(NSamples(o) - 1) |-> k + 1],
                                       LAMBDA i : StatusOf(o)[i] = status)
        IN  /\ NSamples(o) >= 1 => IsNaN(length[1])
            /\ \A i \in 2..NSamples(o) :
                   /\ ~IsNaN(length[i])
                   /\ length[i].coef >= 0
                   /\ length[i].coef * length[i].coef * length[i].rad =
                          (x[i] - x[i - 1]) * (x[i] - x[i - 1]) + (y[i] - y[i - 1]) * (y[i] - y[i - 1])
            /\ objs[o].summary.distance_on = Div(SeriesSum(Take(length, later(1))), DistanceDivisor)
            /\ objs[o].summary.distance_off = Div(SeriesSum(Take(length, later(0))), DistanceDivisor)

\* a diagonal step, then a step along z alone: lengths sqrt(2) and 0
C6_Witness ==
    \E o \in Built :
        /\ NSamples(o) = 3
        /\ Written(o, "z")[3] # Written(o, "z")[2]
        /\ objs[o].df.data["length"] = <<NaN, [coef |-> 1, rad |-> 2], Float(0)>>

(* ------------------------------- C7 ----------------------------------- *)

C8_EdgeCasesComplete ==
    /\ \A path \in {f \in DOMAIN files : \A o \in Built : objs[o].filepath # f} :
           LET made == LayerKinematics(path, files[path])
           IN  /\ DOMAIN made.summary = {"time_on", "time_off", "distance_on", "distance_off",
                                         "total_distance", "total_time", "number_events"}
               /\ made.summary.number_events \in Nat
               /\ made.summary.total_time.num \in Nat
               /\ DfLen(made.df) = Len(files[path].lines)
    /\ \A o \in Built :
           (\A i \in 1..NSamples(o) : StatusOf(o)[i] # 1) =>
               /\ MicrosAre(objs[o].summary.time_on, 0)
               /\ DistanceIs(objs[o].summary.distance_on, 0)
               /\ BinaryStatus(o) => objs[o].summary.number_events = 1

\* a laser-off layer that moves: its distance is all off
C8_Witness ==
    \E o \in Built :
        /\ NSamples(o) >= 2
        /\ \A i \in 1..NSamples(o) : StatusOf(o)[i] = 0
        /\ ~DistanceIs(objs[o].summary.distance_off, 0)
        /\ objs[o].summary.number_events = 1

(* ------------------------------- C9 ----------------------------------- *)

\* C9: over laser states 0 and 1, event[0] = 0 and event[i] =
\* laser_status[i] - laser_status[i-1] for i > 0: a value of {-1, 0, 1},
\* nonzero exactly where the status changed.
C9_EventIsStatusDifference ==
    \A o \in Built :
        BinaryStatus(o) =>
            \A i \in 1..NSamples(o) :
                LET event == objs[o].df.data["event"][i]
                IN  /\ event = IF i = 1 THEN 0 ELSE StatusOf(o)[i] - StatusOf(o)[i - 1]
                    /\ event \in {-1, 0, 1}
                    /\ event # 0 <=> (i > 1 /\ StatusOf(o)[i] # StatusOf(o)[i - 1])

\* the laser goes off and on again: markers 0, -1, 1
C9_Witness ==
    \E o \in Built :
        /\ StatusOf(o) = <<1, 0, 1>>
        /\ objs[o].df.data["event"] = <<0, -1, 1>>

(* ------------------------------- C10 ---------------------------------- *)

\* C10: polygons[i] = 1 exactly when length[i] is defined and 0, that is when
\* i > 0 and (x, y) is that of the sample before; else 0.  The first sample
\* is never marked.
C10_PolygonMarksDwell ==
    \A o \in Built :
        \A i \in 1..NSamples(o) :
            LET polygon == objs[o].df.data["polygons"][i]
                length  == objs[o].df.data["length"][i]
            IN  /\ polygon \in {0, 1}
                /\ polygon = 1 <=> (~IsNaN(length) /\ length.coef = 0)
                /\ polygon = 1 <=> (/\ i > 1
                                    /\ Written(o, "x")[i] = Written(o, "x")[i - 1]
                                    /\ Written(o, "y")[i] = Written(o, "y")[i - 1])
                /\ i = 1 => polygon = 0

\* a dwell in (x, y) while z moves is marked, the first sample and a step are not
C10_Witness ==
    \E o \in Built :
        /\ objs[o].df.data["polygons"] = <<0, 0, 1>>
        /\ Written(o, "z")[3] # Written(o, "z")[2]

(* ------------------------- MonitoringPorosity ------------------------- *)
(* src/Ingesters/MonitoringPorosity.py, and the same methods of           *)
(* src/Ingesters/AcrossBuildPores.py.  A pore's 'Center x [mm]' and       *)
(* 'Center y [mm]' are held in 1/100 mm, its 'Center z [mm]' in 1/10000   *)
(* mm: the digit that round(z + 18, 3) drops is kept.  The quotients are  *)
(* exact; the error of a double precision division is not modelled.      *)

\* the most pores of an xct table
MaxPores == 2

\* LAYER_THICKNESS = 0.05 mm, in 1/1000 mm
LAYER_THICKNESS == 50

\* the 18 of x+18, in 1/10000 mm
ZShift == 180000

\* 25.18 mm, in 1/100 mm
XYLimit == 2518

\* the 848 of range(1, 848)
HistogramStop == 848

Abs(v) == IF v < 0 THEN 0 - v ELSE v

\* round(v, 3) of a value in 1/10000 mm, in 1/1000 mm; a tie goes to the even digit
Round3(v) ==
    LET q == v \div 10
        r == v % 10
    IN  IF r < 5 THEN q
        ELSE IF r > 5 THEN q + 1
        ELSE IF q % 2 = 0 THEN q ELSE q + 1

\* int(a / b), b > 0: the quotient cut towards zero
IntOfQuotient(a, b) == IF a >= 0 THEN a \div b ELSE 0 - ((0 - a) \div b)

\* lambda x: int(round(x+18, 3) / LAYER_THICKNESS)
LayerOf(z) == IntOfQuotient(Round3(z + ZShift), LAYER_THICKNESS)

\* df[mask]: the rows kept, every column
KeepRows(df, rows) ==
    [columns |-> df.columns,
     dtypes  |-> df.dtypes,
     data    |-> [c \in Range(df.columns) |-> Take(df.data[c], rows)]]

RowNumbers(df) == [i \in 1..DfLen(df) |-> i]

_create_porosity_df(csv) ==
    LET read  == ReadCsv(csv)
        df    == SetColumn(read, "layer", "int64",
                           [i \in 1..DfLen(read) |-> LayerOf(read.data["Center z [mm]"][i])])
        in_x  == KeepRows(df, SelectSeq(RowNumbers(df),
                     LAMBDA i : /\ df.data["Center x [mm]"][i] > 0 - XYLimit
                                /\ df.data["Center x [mm]"][i] < XYLimit))
    IN  KeepRows(in_x, SelectSeq(RowNumbers(in_x),
            LAMBDA i : /\ in_x.data["Center y [mm]"][i] >
                              (XYLimit - Abs(in_x.data["Center x [mm]"][i])) * (0 - 1)
                       /\ in_x.data["Center y [mm]"][i] <
                              XYLimit - Abs(in_x.data["Center x [mm]"][i])))

\* slip: the last layer is left out
_get_porosity_histogram_df_short(porosity_df) ==
    [layer |-> [i \in 1..(HistogramStop - 2) |-> i],
     pores |-> [i \in 1..(HistogramStop - 2) |-> Len(RowsWhere(porosity_df, "layer", i))]]

\* for i in range(1, 848): one row per layer, the number of pores of that layer
_get_porosity_histogram_df(porosity_df) ==
    [layer |-> [i \in 1..(HistogramStop - 1) |-> i],
     pores |-> [i \in 1..(HistogramStop - 1) |-> Len(RowsWhere(porosity_df, "layer", i))]]

\* MonitoringPorosity(xct_porosity_file, monitoring_layers_dir)
MonitoringPorosity(xct_porosity_file, monitoring_layers_dir, csv) ==
    [xct_porosity_file    |-> xct_porosity_file,
     monitoring_files_dir |-> monitoring_layers_dir,
     porosity_df          |-> _create_porosity_df(csv),
     porosity_per_layer   |-> _get_porosity_histogram_df(_create_porosity_df(csv))]

PoreColumns == <<"Center x [mm]", "Center y [mm]", "Center z [mm]">>

\* (x, y): inside the diamond, on its corner (outside by x), outside by y
PoreXY == {<<0, 0>>, <<2518, 0>>, <<0 - 2000, 0 - 600>>}

\* z + 18 in mm: 0.0004 (layer 0), 0.09 (1), 0.0996 (2 after round), 42.35 (847),
\* 42.4 (848), -0.06 (-1)
PoreZ == {4 - ZShift, 900 - ZShift, 996 - ZShift, 423500 - ZShift, 424000 - ZShift, 0 - 600 - ZShift}

Pores == {<<xy[1], xy[2], z>> : xy \in PoreXY, z \in PoreZ}

PorosityFile(pores) ==
    [header |-> PoreColumns,
     lines  |-> [i \in 1..Len(pores) |-> [j \in 1..Len(PoreColumns) |-> <<"i", pores[i][j]>>]]]

PorosityPath == "porosity.csv"

MonitoringDir == "common_monitoring_file"

InitPorosity ==
    /\ \E pores \in UNION {[1..n -> Pores] : n \in 0..MaxPores} :
           files = (PorosityPath :> PorosityFile(pores))
    /\ objs = <<>>
    /\ returned = <<>>

\* obj = MonitoringPorosity(PorosityPath, MonitoringDir)
NewMonitoringPorosity ==
    /\ PorosityPath \in DOMAIN files
    /\ objs = <<>>
    /\ objs' = <<MonitoringPorosity(PorosityPath, MonitoringDir, files[PorosityPath])>>
    /\ UNCHANGED <<files, returned>>

NextPorosity == NewMonitoringPorosity

SpecPorosity == InitPorosity /\ [][NextPorosity]_vars

\* the pores of the xct table, as written in it
PoreOf(k, name) == CsvColumn(files[PorosityPath], name)[k][2]

PoreCount == Len(files[PorosityPath].lines)

InDiamond(k) ==
    /\ Abs(PoreOf(k, "Center x [mm]")) < XYLimit
    /\ Abs(PoreOf(k, "Center y [mm]")) < XYLimit - Abs(PoreOf(k, "Center x [mm]"))

(* ------------------------------- C11 ---------------------------------- *)

\* C11: the layer of a pore is (z + 18) / LAYER_THICKNESS rounded to the
\* nearest integer: the pore is no further than half a layer from its layer.
C11_LayerIsNearest ==
    \A o \in 1..Len(objs) :
        \A k \in 1..DfLen(objs[o].porosity_df) :
            2 * Abs(objs[o].porosity_df.data["Center z [mm]"][k] + ZShift
                    - 10 * LAYER_THICKNESS * objs[o].porosity_df.data["layer"][k])
                <= 10 * LAYER_THICKNESS

(* ------------------------------- C13 ---------------------------------- *)

RECURSIVE SumOver(_, _)
SumOver(S, f) ==
    IF S = {} THEN 0
    ELSE LET i == CHOOSE i \in S : TRUE IN f[i] + SumOver(S \ {i}, f)

\* C13: the histogram has one row per layer 1..847, in ascending order; the
\* 'pores' of layer i is the number of pores inside the diamond whose layer
\* is i; the 'pores' add up to the pores inside the diamond with a layer in
\* 1..847, so a pore of another layer is in no row.
C13_HistogramCountsLayers ==
    \A o \in 1..Len(objs) :
        LET hist == objs[o].porosity_per_layer
            kept == {k \in 1..PoreCount : InDiamond(k)}
        IN  /\ hist.layer = [i \in 1..847 |-> i]
            /\ Len(hist.pores) = 847
            /\ \A i \in 1..847 :
                   hist.pores[i] =
                       Cardinality({k \in kept : LayerOf(PoreOf(k, "Center z [mm]")) = i})
            /\ SumOver({i \in 1..847 : hist.pores[i] # 0}, hist.pores) =
                   Cardinality({k \in kept : LayerOf(PoreOf(k, "Center z [mm]")) \in 1..847})

\* a table with a pore of layer 847 inside the diamond, counted, and a pore
\* of layer 848 or 0 or -1 inside the diamond, not counted
C13_Witness ==
    \E o \in 1..Len(objs) :
        /\ objs[o].porosity_per_layer.pores[847] = 1
        /\ \E k \in 1..PoreCount :
               /\ InDiamond(k)
               /\ LayerOf(PoreOf(k, "Center z [mm]")) \notin 1..847

(* --------------------------- layer file names -------------------------- *)

\* A string is the sequence of its characters.

MaxLayer == 1100

DigitChars == <<"0", "1", "2", "3", "4", "5", "6", "7", "8", "9">>

\* str(i) of an integer, as the f-string {i} writes it
RECURSIVE Decimal(_)
Decimal(i) ==
    IF i < 0 THEN <<"-">> \o Decimal(0 - i)
    ELSE IF i < 10 THEN <<DigitChars[i + 1]>>
    ELSE Append(Decimal(i \div 10), DigitChars[(i % 10) + 1])

\* q < k and q >= k of a quotient q = num / den with den > 0
QuotientLess(q, k) == q.num < k * q.den

\* slip: the two digit numbers end at 109
build_layer_id_late(i) ==
    LET j == i \div 10
    IN  IF j < 1 THEN <<"0", "0">> \o Decimal(i)
        ELSE IF 1 <= j /\ j <= 10 THEN <<"0">> \o Decimal(i)
        ELSE Decimal(i)

\* build_layer_id(i): j = i // 10
build_layer_id(i) ==
    LET j == i \div 10
    IN  IF j < 1 THEN <<"0", "0">> \o Decimal(i)
        ELSE IF 1 <= j /\ j < 10 THEN <<"0">> \o Decimal(i)
        ELSE Decimal(i)

\* get_layer_to_string(layer_num): i = layer_num / 10
get_layer_to_string(layer_num) ==
    LET i == Div(layer_num, 10)
    IN  IF QuotientLess(i, 1) THEN <<"0", "0">> \o Decimal(layer_num)
        ELSE IF ~QuotientLess(i, 1) /\ QuotientLess(i, 10) THEN <<"0">> \o Decimal(layer_num)
        ELSE Decimal(layer_num)

LayerNumbers == 0..MaxLayer

InitNames ==
    /\ files = <<>>
    /\ objs = <<>>
    /\ returned = <<>>

\* build_layer_id(i)
BuildLayerId(i) ==
    /\ returned' = <<[call |-> "build_layer_id", arg |-> i, value |-> build_layer_id(i)]>>
    /\ UNCHANGED <<files, objs>>

\* get_layer_to_string(layer_num)
GetLayerToString(layer_num) ==
    /\ returned' = <<[call |-> "get_layer_to_string", arg |-> layer_num,
                      value |-> get_layer_to_string(layer_num)]>>
    /\ UNCHANGED <<files, objs>>

NextNames ==
    \/ \E i \in LayerNumbers : BuildLayerId(i)
    \/ \E layer_num \in LayerNumbers : GetLayerToString(layer_num)

SpecNames == InitNames /\ [][NextNames]_vars

(* ------------------------------- C14 ---------------------------------- *)

DigitOf(c) == (CHOOSE d \in 1..10 : DigitChars[d] = c) - 1

RECURSIVE NumberOf(_)
NumberOf(str) ==
    IF str = <<>> THEN 0
    ELSE 10 * NumberOf(SubSeq(str, 1, Len(str) - 1)) + DigitOf(str[Len(str)])

IsDigits(str) == \A k \in 1..Len(str) : str[k] \in Range(DigitChars)

\* C14: build_layer_id(i) is i in decimal digits, of exactly three characters
\* (zeros on the left) for 0 <= i <= 999 and without a leading zero for
\* i >= 1000; get_layer_to_string returns the string build_layer_id returns.
C14_NamesAgree ==
    \A r \in 1..Len(returned) :
        LET i == returned[r].arg
            str == returned[r].value
        IN  /\ returned[r].call = "build_layer_id" =>
                /\ IsDigits(str)
                /\ NumberOf(str) = i
                /\ i <= 999 => Len(str) = 3
                /\ i >= 1000 => str[1] # "0"
            /\ returned[r].call = "get_layer_to_string" => str = build_layer_id(i)

\* get_layer_to_string has named layer 1000, which takes no zero
C14_Witness ==
    \E r \in 1..Len(returned) :
        /\ returned[r].call = "get_layer_to_string"
        /\ returned[r].arg = 1000
        /\ returned[r].value = <<"1", "0", "0", "0">>

(* -------------------------- AconityFileReader -------------------------- *)

MaxRows == 3

MaxOffset == 4

AconColumns == <<"t", "x", "y", "z", "sensor_0", "sensor_1", "sensor_2", "power",
                 "laser_status", "state_1">>

\* the dtype read_csv is given for each column position
AconDtype(c) == IF c \in {"x", "y", "z"} THEN "float64" ELSE "int64"

\* _create_df: the cells parsed with the dtypes given, the columns renamed
_create_df(csv) ==
    [columns |-> AconColumns,
     dtypes  |-> [c \in Range(AconColumns) |-> AconDtype(c)],
     data    |-> [c \in Range(AconColumns) |->
                    [i \in 1..Len(csv.lines) |->
                        ParseCell(csv.lines[i][ColumnPos(AconColumns, c)], AconDtype(c))]]]

\* slip: the values move towards the start
NpRoll_back(a, shift) ==
    LET n == Len(a)
        s == (0 - shift) % (IF n = 0 THEN 1 ELSE n)
    IN  SubSeq(a, n - s + 1, n) \o SubSeq(a, 1, n - s)

\* np.roll(a, shift): the last shift mod n values come first
NpRoll(a, shift) ==
    LET n == Len(a)
        s == shift % (IF n = 0 THEN 1 ELSE n)
    IN  SubSeq(a, n - s + 1, n) \o SubSeq(a, 1, n - s)

\* _fix_df: every column but t is rolled by OFFSET
_fix_df(df, OFFSET) ==
    [columns |-> df.columns,
     dtypes  |-> df.dtypes,
     data    |-> [col \in Range(df.columns) |->
                    IF col # "t" THEN NpRoll(df.data[col], OFFSET) ELSE df.data[col]]]

\* the file of the module's example, its directory and the number in its name
PcdPath == "UTEP51 PCD/00_15.pcd"

PcdDirectory == "UTEP51 PCD"

PcdHeight == 15

ConfigPath == "config.ini"

\* layer_thickness_to_num: int(round(height, 4) / (LAYER_THICKNESS * 100)),
\* the configured thickness in 1/1000 mm
layer_thickness_to_num(height, thickness) == IntOfQuotient(10 * height, thickness)

\* AconityFileReader(filepath)
AconityFileReader(filepath, csv, config) ==
    [filepath   |-> filepath,
     _directory |-> PcdDirectory,
     layer      |-> layer_thickness_to_num(PcdHeight, config.layer_thickness),
     columns    |-> AconColumns,
     _df        |-> _fix_df(_create_df(csv), config.offset)]

\* the values of one sample in the columns after t
AconSamples ==
    {<<0, 0, 0, 100, 200, 300, 0, 0, 0>>,
     <<1, 0, 0, 101, 201, 301, 2800, 1, 1>>,
     <<1, 1, 5, 102, 202, 302, 2600, 2, 3>>}

\* a pcd table: one line per sample, t a multiple of the sample period
PcdFile(rows) ==
    [header |-> AconColumns,
     lines  |-> [i \in 1..Len(rows) |->
                    [j \in 1..Len(AconColumns) |->
                        IF j = 1 THEN <<"i", SamplePeriod * (i - 1)>>
                        ELSE IF j \in 2..4 THEN <<"f", Float(rows[i][j - 1])>>
                        ELSE <<"i", rows[i][j - 1]>>]]]

ConfigFile(offset) ==
    [frequency |-> MicrosPerSecond \div SamplePeriod, offset |-> offset,
     layer_thickness |-> LAYER_THICKNESS]

InitAcon ==
    /\ \E rows \in UNION {[1..n -> AconSamples] : n \in 0..MaxRows} :
       \E offset \in (0 - 1)..MaxOffset :
           files = (PcdPath :> PcdFile(rows)) @@ (ConfigPath :> ConfigFile(offset))
    /\ objs = <<>>
    /\ returned = <<>>

\* obj = AconityFileReader(PcdPath)
NewAconityFileReader ==
    /\ PcdPath \in DOMAIN files
    /\ objs = <<>>
    /\ objs' = <<AconityFileReader(PcdPath, files[PcdPath], files[ConfigPath])>>
    /\ UNCHANGED <<files, returned>>

NextAcon == NewAconityFileReader

SpecAcon == InitAcon /\ [][NextAcon]_vars

(* ------------------------------- C15 ---------------------------------- *)

Occurrences(col, v) == Cardinality({k \in 1..Len(col) : col[k] = v})

\* C15: _fix_df keeps the number of rows and the column t, and the value of
\* every other column at row i (from 0) is the original value at row
\* (i - OFFSET) mod n; so every column keeps its values with their
\* multiplicities, the rows of the other columns stay whole, and for an
\* OFFSET of 0..n the last OFFSET rows stand at the first OFFSET timestamps.
C15_FixIsCircularShift ==
    \A o \in 1..Len(objs) :
        LET df == objs[o]._df
            original == _create_df(files[objs[o].filepath])
            OFFSET == files[ConfigPath].offset
            n == DfLen(original)
            others == Range(AconColumns) \ {"t"}
        IN  /\ DfLen(df) = n
            /\ \A c \in others : Len(df.data[c]) = n
            /\ df.data["t"] = original.data["t"]
            /\ \A c \in others : \A i \in 0..(n - 1) :
                   df.data[c][i + 1] = original.data[c][((i - OFFSET) % n) + 1]
            /\ \A c \in others : \A k \in 1..n :
                   Occurrences(df.data[c], original.data[c][k]) =
                       Occurrences(original.data[c], original.data[c][k])
            /\ \A i \in 1..n : \E k \in 1..n :
                   \A c \in others : df.data[c][i] = original.data[c][k]
            /\ (0 <= OFFSET /\ OFFSET <= n) =>
                   \A k \in 1..OFFSET :
                       /\ df.data["t"][k] = original.data["t"][k]
                       /\ \A c \in others : df.data[c][k] = original.data[c][n - OFFSET + k]

\* three different samples rolled by one: the last stands at the first timestamp
C15_Witness ==
    \E o \in 1..Len(objs) :
        /\ files[ConfigPath].offset = 1
        /\ DfLen(objs[o]._df) = 3
        /\ objs[o]._df.data["power"] = <<2600, 0, 2800>>
        /\ objs[o]._df.data["t"] = <<0, 10, 20>>

(* ------------------------ load_monitoring_layer ------------------------ *)

MaxSamples == 22

MaxPattern == 2

PowerThreshold == 2700

RowStride == 10

\* the characters of a string put together, as an f-string does
RECURSIVE Join(_)
Join(str) == IF str = <<>> THEN "" ELSE str[1] \o Join(Tail(str))

\* f"{self.monitoring_files_dir}/transformed_id-{n}.csv"
MonitoringLayerPath(dir, n) == dir \o "/transformed_id-" \o Join(n) \o ".csv"

\* df[df[name] > value]: the row numbers kept, in order
RowsAbove(df, name, value) ==
    SelectSeq([i \in 1..DfLen(df) |-> i], LAMBDA i : df.data[name][i] > value)

\* df.iloc[::step, :]: the row numbers at positions 0, step, 2 step, ...
EveryNth(df, step) ==
    [k \in 1..((DfLen(df) + step - 1) \div step) |-> (k - 1) * step + 1]

\* load_monitoring_layer(n, laser_on, laser_off)
load_monitoring_layer(self, n, laser_on, laser_off) ==
    LET filepath == MonitoringLayerPath(self.monitoring_files_dir, build_layer_id(n))
        df == ReadCsv(files[filepath])
        df1 == IF laser_on /\ ~laser_off THEN KeepRows(df, RowsWhere(df, "laser_status", 1))
               ELSE IF laser_off /\ ~laser_on THEN KeepRows(df, RowsWhere(df, "laser_status", 0))
               ELSE df
        df2 == KeepRows(df1, RowsAbove(df1, "power", PowerThreshold))
    IN  KeepRows(df2, EveryNth(df2, RowStride))

LayerColumns == <<"t", "power", "laser_status">>

\* (power, laser_status) of a sample
LayerSamples == {<<2800, 1>>, <<2800, 0>>, <<2700, 1>>, <<2701, 0>>}

\* the layers that have a monitoring file
LoadLayers == {1, 12}

\* a monitoring file of length samples: a pattern of samples repeated
LayerFile(pattern, length) ==
    [header |-> LayerColumns,
     lines  |-> [i \in 1..length |->
                    <<<<"i", SamplePeriod * (i - 1)>>,
                      <<"i", pattern[((i - 1) % Len(pattern)) + 1][1]>>,
                      <<"i", pattern[((i - 1) % Len(pattern)) + 1][2]>>>>]]

InitLoad ==
    /\ \E n \in LoadLayers :
       \E pattern \in UNION {[1..p -> LayerSamples] : p \in 1..MaxPattern} :
       \E length \in 0..MaxSamples :
           files = (PorosityPath :> PorosityFile(<<>>))
                   @@ (MonitoringLayerPath(MonitoringDir, build_layer_id(n))
                           :> LayerFile(pattern, length))
    /\ objs = <<>>
    /\ returned = <<>>

\* obj.load_monitoring_layer(n, laser_on, laser_off); a layer without a file raises
LoadMonitoringLayer(o, n, laser_on, laser_off) ==
    /\ o \in 1..Len(objs)
    /\ MonitoringLayerPath(objs[o].monitoring_files_dir, build_layer_id(n)) \in DOMAIN files
    /\ returned' = <<[call |-> "load_monitoring_layer", n |-> n,
                      laser_on |-> laser_on, laser_off |-> laser_off,
                      value |-> load_monitoring_layer(objs[o], n, laser_on, laser_off)]>>
    /\ UNCHANGED <<files, objs>>

NextLoad ==
    \/ NewMonitoringPorosity
    \/ \E n \in LoadLayers : \E laser_on \in BOOLEAN : \E laser_off \in BOOLEAN :
           LoadMonitoringLayer(1, n, laser_on, laser_off)

SpecLoad == InitLoad /\ [][NextLoad]_vars

(* ------------------------------- C12 ---------------------------------- *)

\* the rows of the layer file of a call that pass the filters the flags ask
\* for, in file order, and every 10th of them
Passing(r) ==
    LET csv == files[MonitoringLayerPath(MonitoringDir, build_layer_id(returned[r].n))]
    IN  SelectSeq(csv.lines,
                  LAMBDA line : /\ returned[r].laser_on => line[3][2] = 1
                                /\ returned[r].laser_off => line[3][2] = 0
                                /\ line[2][2] > 2700)

Picked(r) == [k \in 1..((Len(Passing(r)) + 9) \div 10) |-> Passing(r)[10 * (k - 1) + 1]]

\* C12: for every combination of the flags, laser_on leaves only rows of
\* status 1 and laser_off only rows of status 0, every returned row has
\* power > 2700, and the rows returned are the rows at positions 0, 10, 20,
\* ... of the rows that passed the filters, in file order.
C12_FlagsFilter ==
    \A r \in 1..Len(returned) :
        LET df == returned[r].value
        IN  /\ returned[r].laser_on => \A k \in 1..DfLen(df) : df.data["laser_status"][k] = 1
            /\ returned[r].laser_off => \A k \in 1..DfLen(df) : df.data["laser_status"][k] = 0
            /\ \A k \in 1..DfLen(df) : df.data["power"][k] > 2700
            /\ DfLen(df) = Len(Picked(r))
            /\ \A k \in 1..DfLen(df) : \A j \in 1..Len(LayerColumns) :
                   df.data[LayerColumns[j]][k] = Picked(r)[k][j][2]

\* the same for the calls that set at most one flag
C12_OneFlagFilters ==
    \A r \in 1..Len(returned) :
        ~(returned[r].laser_on /\ returned[r].laser_off) =>
            LET df == returned[r].value
            IN  /\ returned[r].laser_on => \A k \in 1..DfLen(df) : df.data["laser_status"][k] = 1
                /\ returned[r].laser_off => \A k \in 1..DfLen(df) : df.data["laser_status"][k] = 0
                /\ \A k \in 1..DfLen(df) : df.data["power"][k] > 2700
                /\ DfLen(df) = Len(Picked(r))
                /\ \A k \in 1..DfLen(df) : \A j \in 1..Len(LayerColumns) :
                       df.data[LayerColumns[j]][k] = Picked(r)[k][j][2]

====
